---- MODULE Spec2Model ----
(***************************************************************************)
(* Model of moex_collector.py: one collector run (main) with its helpers   *)
(* get_isin_list, get_all_securities, clear_table, get_column_mapping and  *)
(* insert_data_generic, the MOEX server and the PostgreSQL table being the *)
(* environment; and of table_manager.py: one run of its main.              *)
(*                                                                         *)
(* Names (column names, ISINs) are sequences of character codes, so that   *)
(* str.upper() is computed and not assumed.  Python's 0-based positions    *)
(* are 1-based here.                                                       *)
(***************************************************************************)
EXTENDS Integers, Sequences, FiniteSets, TLC

VARIABLES
    args,           \* parse_arguments(): [table, mode, isin]
    start_date,     \* get_date_range(): first day of the range
    end_date,       \* get_date_range(): last day of the range
    config_schema,  \* config.options("TABLE_SCHEMA:<table>"), in file order
    isin_list,      \* main: isin_list
    conn,           \* main: conn ("none": not assigned yet, "failed": None,
                    \* "open", "closed")
    table,          \* rows of the destination table in the database
    server,         \* which family of answers the MOEX server gives this run
    pc,             \* position of main
    exc,            \* the exception main is propagating ("none": none)
    date,           \* main: date of the quotas loop (0 outside it)
    isin_idx,       \* main: position of the for-loop over isin_list (0 outside)
    params_start,   \* main: params['start'] of the paging loop
    data,           \* main: data, the response of the last fetch_moex_data
    securities,     \* get_all_securities: securities
    gas_start,      \* get_all_securities: start
    gas_caller,     \* who called get_all_securities ("isin_list", "main")
    http_calls,     \* history: number of fetch_moex_data calls (saturating)
    requests,       \* history: start offsets requested in the current sequence
    trunc_calls,    \* history: number of TRUNCATE statements issued
    table0,         \* history: the table before the run
    committed,      \* history: the rows added by Pages that committed, each with
                    \* the number of Page failures before it
    page_failures,  \* history: number of Pages rolled back (saturating)
    runs,           \* how many times the collector is run with these arguments
    run,            \* the run in progress
    log,            \* the responses the server gave in the first of two runs
    log_pos,        \* second run: how many of them it has given again
    table1,         \* history: the table after the first run
    conn1,          \* history: conn at the end of the first run
    failures1,      \* history: page_failures at the end of the first run
    tm_args,        \* table_manager parse_arguments(): [action, table]
    tm_conn,        \* table_manager main: conn
    tm_pc,          \* position of table_manager main ("idle": not started)
    tables_to_process, \* table_manager main: tables_to_process
    table_idx,      \* table_manager main: position of the for-loop over it
    success,        \* table_manager main: success
    tm_exit,        \* exit status of the table_manager process
    attempted,      \* history: the table keys whose operation was called
    failed,         \* history: the table keys whose operation returned falsy
    ld_pc,          \* the loader called on its own ("idle": not in use)
    ld_table,       \* rows of the table the loader writes to
    ld_page,        \* insert_data_generic: data, the Page it is called with
    ld_options,     \* the options of the schema section it is called with
    ld_before,      \* history: the table when it was called
    ld_outcome,     \* history: what the call did ("noop", "ok", "error")
    rows_affected,  \* insert_data_generic: inserted_count as it is printed
    ld_fail_at,     \* history: the row at which the database raised for a
                    \* reason of its own (0: none)
    ld_calls        \* history: number of calls so far

\* the state of a collector run
coll_vars == <<args, start_date, end_date, config_schema, isin_list, conn, table,
          server, pc, exc, date, isin_idx, params_start, data, securities, gas_start,
          gas_caller, http_calls, requests, trunc_calls, table0, committed,
          page_failures, runs, run, log, log_pos, table1, conn1, failures1>>

\* the state of a table_manager run
tm_vars == <<tm_args, tm_conn, tm_pc, tables_to_process, table_idx, success,
             tm_exit, attempted, failed>>

\* the state of the loader called on its own
ld_vars == <<ld_pc, ld_table, ld_page, ld_options, ld_before, ld_outcome,
             rows_affected, ld_fail_at, ld_calls>>

vars == <<coll_vars, tm_vars, ld_vars>>

\* what only changes between two runs
run_vars == <<runs, run, table1, conn1, failures1>>

----------------------------------------------------------------------------
(* Bounds *)

MaxTotal == 3       \* largest total a cursor reports
MaxPageSize == 1    \* largest pagesize a cursor reports
MaxDays == 2        \* longest date range
MaxSecurities == 2  \* rows get_all_securities accumulates at most
MaxCount == 2       \* saturation of the history counter http_calls
MaxTrace == 3       \* saturation of the history trace requests
MaxLog == 3         \* responses of a first run that a second run can replay
MaxCalls == 2       \* calls of the loader on its own

----------------------------------------------------------------------------
(* Names and values *)

NULL == 0
Values == {1, 2}

c_ID == <<73, 68>>      \* "ID"
c_NM == <<78, 77>>      \* "NM"
c_EX == <<69, 88>>      \* "EX"
c_id == <<105, 100>>    \* "id"
c_nm == <<110, 109>>    \* "nm"

isin_a == <<114, 117, 49>>  \* "ru1"
isin_b == <<82, 85, 50>>    \* "RU2"

\* str.upper() on ASCII letters
Upper(s) == [i \in 1..Len(s) |-> IF s[i] \in 97..122 THEN s[i] - 32 ELSE s[i]]

Tables == {"bonds", "quotas", "coupons", "amortizations", "offers"}
Modes == {"clear", "update", "overwrite"}

\* --isin: <<>> when omitted, else the comma-separated tokens
IsinArgs == {<<>>, <<isin_a>>, <<isin_a, isin_b>>}

\* the TABLE_SCHEMA section of the selected table: its options, or none (the
\* section is declared but empty; load_config exits when it is absent)
Schemas == {<<c_id, c_nm>>, <<>>}

\* columns of the destination table and its unique key column
TableCols == {c_id, c_nm}
KeyCol == c_id

StoredRow(k, v) == (c_id :> k) @@ (c_nm :> v)

InitTables == {{}, {StoredRow(1, 2)}}

----------------------------------------------------------------------------
(* Column Mapper and Row Projector: get_column_mapping, insert_data_generic *)

\* get_column_mapping: mapping[db_column_name.upper()] = db_column_name for the
\* options of the schema section in order, a later option replacing an earlier
\* one with the same upper-cased name
get_column_mapping(options) ==
    [k \in {Upper(options[i]) : i \in DOMAIN options} |->
        LET last == CHOOSE i \in DOMAIN options :
                        /\ Upper(options[i]) = k
                        /\ \A j \in DOMAIN options :
                               Upper(options[j]) = k => j <= i
        IN  options[last]]

\* api_indices_in_order: positions of the Page columns that are keys of the
\* mapping (api_col_name in column_mapping), in Page column order
api_indices_in_order(api_columns, column_mapping) ==
    SelectSeq([i \in 1..Len(api_columns) |-> i],
              LAMBDA i : api_columns[i] \in DOMAIN column_mapping)

\* db_columns_in_order: the mapped destination column of each resolved position
db_columns_in_order(api_columns, column_mapping) ==
    LET idx == api_indices_in_order(api_columns, column_mapping)
    IN  [j \in 1..Len(idx) |-> column_mapping[api_columns[idx[j]]]]

\* db_row reading the row at the position in the destination list instead of
\* the recorded source index
db_row_ByPosition(row, idx) ==
    [j \in 1..Len(idx) |-> IF j <= Len(row) THEN row[j] ELSE NULL]

\* db_row giving the row's first value, not None, for an index beyond the row
db_row_PadsFirstValue(row, idx) ==
    [j \in 1..Len(idx) |-> IF idx[j] <= Len(row) THEN row[idx[j]] ELSE row[1]]

\* db_row = [row[i] if i < len(row) else None for i in api_indices_in_order]
db_row(row, idx) ==
    [j \in 1..Len(idx) |-> IF idx[j] <= Len(row) THEN row[idx[j]] ELSE NULL]

----------------------------------------------------------------------------
(* The destination table: INSERT ... ON CONFLICT DO NOTHING                *)

\* the row an INSERT with this column list and these values would store
\* (columns not listed take NULL)
NewRow(cols, vals) ==
    [c \in TableCols |->
        IF \E j \in DOMAIN cols : cols[j] = c
        THEN vals[CHOOSE j \in DOMAIN cols : cols[j] = c]
        ELSE NULL]

\* the statement is rejected by the database: a column named twice, a column
\* the table does not have, or no value for the key
StatementRejected(cols, vals) ==
    \/ \E i, j \in DOMAIN cols : i # j /\ cols[i] = cols[j]
    \/ \E j \in DOMAIN cols : cols[j] \notin TableCols
    \/ NewRow(cols, vals)[KeyCol] = NULL

\* a stored row with the same key: ON CONFLICT DO NOTHING skips the new row
Conflicts(tbl, r) == \E s \in tbl : s[KeyCol] = r[KeyCol]

\* ExecRows with ON CONFLICT DO UPDATE for DO NOTHING: a row with a stored key
\* replaces the stored row
RECURSIVE ExecRows_Upsert(_, _, _, _, _, _, _)
ExecRows_Upsert(tbl, rows, k, cols, idx, fail_at, inserted_count) ==
    IF k > Len(rows)
    THEN [tbl |-> tbl, inserted_count |-> inserted_count, raised |-> FALSE]
    ELSE LET vals == db_row(rows[k], idx)
             r == NewRow(cols, vals)
         IN  IF k = fail_at \/ StatementRejected(cols, vals)
             THEN [tbl |-> tbl, inserted_count |-> inserted_count,
                   raised |-> TRUE]
             ELSE ExecRows_Upsert(
                      {s \in tbl : s[KeyCol] # r[KeyCol]} \cup {r},
                      rows, k + 1, cols, idx, fail_at, inserted_count + 1)

\* ExecRows counting a skipped row as affected (inserted_count += 1 for
\* inserted_count += cur.rowcount)
RECURSIVE ExecRows_CountsSkipped(_, _, _, _, _, _, _)
ExecRows_CountsSkipped(tbl, rows, k, cols, idx, fail_at, inserted_count) ==
    IF k > Len(rows)
    THEN [tbl |-> tbl, inserted_count |-> inserted_count, raised |-> FALSE]
    ELSE LET vals == db_row(rows[k], idx)
             r == NewRow(cols, vals)
         IN  IF k = fail_at \/ StatementRejected(cols, vals)
             THEN [tbl |-> tbl, inserted_count |-> inserted_count,
                   raised |-> TRUE]
             ELSE ExecRows_CountsSkipped(
                      IF Conflicts(tbl, r) THEN tbl ELSE tbl \cup {r},
                      rows, k + 1, cols, idx, fail_at, inserted_count + 1)

\* cur.execute(insert_query, db_row) for the rows from position k on, inside
\* one transaction; fail_at is the position of the row at which the database
\* raises for a reason of its own (0: none)
RECURSIVE ExecRows(_, _, _, _, _, _, _)
ExecRows(tbl, rows, k, cols, idx, fail_at, inserted_count) ==
    IF k > Len(rows)
    THEN [tbl |-> tbl, inserted_count |-> inserted_count, raised |-> FALSE]
    ELSE LET vals == db_row(rows[k], idx)
             r == NewRow(cols, vals)
         IN  IF k = fail_at \/ StatementRejected(cols, vals)
             THEN [tbl |-> tbl, inserted_count |-> inserted_count,
                   raised |-> TRUE]
             ELSE IF Conflicts(tbl, r)
                  THEN ExecRows(tbl, rows, k + 1, cols, idx, fail_at,
                                inserted_count)
                  ELSE ExecRows(tbl \cup {r}, rows, k + 1, cols, idx, fail_at,
                                inserted_count + 1)

\* insert_data_generic committing what was executed before the error instead
\* of rolling it back
insert_data_generic_NoRollback(tbl, page, options, fail_at) ==
    LET api_columns == page.columns
        rows == page.data
        column_mapping == get_column_mapping(options)
        cols == db_columns_in_order(api_columns, column_mapping)
        idx == api_indices_in_order(api_columns, column_mapping)
        txn == ExecRows(tbl, rows, 1, cols, idx, fail_at, 0)
    IN  IF \/ ~page.present \/ rows = <<>>
           \/ api_columns = <<>>
           \/ DOMAIN column_mapping = {}
           \/ cols = <<>>
        THEN [tbl |-> tbl, outcome |-> "noop", inserted_count |-> 0]
        ELSE IF txn.raised
             THEN [tbl |-> txn.tbl, outcome |-> "error",
                   inserted_count |-> txn.inserted_count]
             ELSE [tbl |-> txn.tbl, outcome |-> "ok",
                   inserted_count |-> txn.inserted_count]

\* insert_data_generic without the return of lines 271-273: the statement is
\* built with an empty column list and executed
insert_data_generic_NoColumnCheck(tbl, page, options, fail_at) ==
    LET api_columns == page.columns
        rows == page.data
        column_mapping == get_column_mapping(options)
        cols == db_columns_in_order(api_columns, column_mapping)
        idx == api_indices_in_order(api_columns, column_mapping)
        txn == ExecRows(tbl, rows, 1, cols, idx, fail_at, 0)
    IN  IF \/ ~page.present \/ rows = <<>>
           \/ api_columns = <<>>
           \/ DOMAIN column_mapping = {}
        THEN [tbl |-> tbl, outcome |-> "noop", inserted_count |-> 0]
        ELSE IF txn.raised
             THEN [tbl |-> tbl, outcome |-> "error", inserted_count |-> 0]
             ELSE [tbl |-> txn.tbl, outcome |-> "ok",
                   inserted_count |-> txn.inserted_count]

\* insert_data_generic(conn, table_name, data, config, table_key): the table
\* after the call, what happened ("noop": returned before the transaction,
\* "ok": committed, "error": rolled back) and the rows-affected count
insert_data_generic(tbl, page, options, fail_at) ==
    LET api_columns == page.columns
        rows == page.data
        column_mapping == get_column_mapping(options)
        cols == db_columns_in_order(api_columns, column_mapping)
        idx == api_indices_in_order(api_columns, column_mapping)
        txn == ExecRows(tbl, rows, 1, cols, idx, fail_at, 0)
    IN  IF \/ ~page.present \/ rows = <<>>
           \/ api_columns = <<>>
           \/ DOMAIN column_mapping = {}
           \/ cols = <<>>
        THEN [tbl |-> tbl, outcome |-> "noop", inserted_count |-> 0]
        ELSE IF txn.raised
             THEN [tbl |-> tbl, outcome |-> "error", inserted_count |-> 0]
             ELSE [tbl |-> txn.tbl, outcome |-> "ok",
                   inserted_count |-> txn.inserted_count]

\* clear_table: TRUNCATE, committed, or rolled back when the database raises
clear_table(tbl, raises) == IF raises THEN tbl ELSE {}

----------------------------------------------------------------------------
(* The server: responses of fetch_moex_data                                *)

\* the block of a response the code looks at ("description", "securities",
\* "history", "coupons", ...): present or not, with its columns and data
NoBlock == [present |-> FALSE, columns |-> <<>>, data |-> <<>>]
Page(columns, rows) == [present |-> TRUE, columns |-> columns, data |-> rows]

FirstPage == Page(<<c_ID, c_EX, c_NM>>, << <<1, 2, 1>> >>)
EmptyPage == Page(<<c_ID, c_NM>>, <<>>)

\* a Page that spells a column name in lower case
MixedCasePage == Page(<<c_ID, c_nm>>, << <<2, 1>> >>)

\* a Page none of whose columns is a key of the mapping
UnresolvedPage == Page(<<c_EX, c_id>>, << <<1, 2>> >>)

Pages ==
    { FirstPage,
      Page(<<c_NM, c_ID>>, << <<2, 2>>, <<1, 1>> >>),
      Page(<<c_ID, c_NM, c_EX>>, << <<2>> >>),
      MixedCasePage,
      UnresolvedPage }

Blocks == {NoBlock, EmptyPage} \cup Pages

\* more Pages for the loader called on its own: a Page whose second row has
\* the key of its first, a Page whose row ends before its key column
DuplicatePage == Page(<<c_ID, c_NM>>, << <<1, 1>>, <<1, 2>>, <<2, 1>> >>)
ShortKeyPage == Page(<<c_NM, c_ID>>, << <<1>> >>)

LoaderPages == Pages \cup {EmptyPage, DuplicatePage, ShortKeyPage}

\* the "<block>.cursor" entry: present or not, data = [[index, total, pagesize]]
NoCursor == [present |-> FALSE, data |-> <<>>]
Cursor(index, total, pagesize) ==
    [present |-> TRUE, data |-> << <<index, total, pagesize>> >>]

\* a cursor whose row is not a triple: index, total, pagesize = cursor_data[0]
\* raises ValueError
BadCursor == [present |-> TRUE, data |-> << <<0, MaxTotal>> >>]

\* any cursor a response to a request with this start may carry
Cursors(start) ==
    {NoCursor, [present |-> TRUE, data |-> <<>>], BadCursor} \cup
    { Cursor(start, total, pagesize) :
        total \in 0..MaxTotal, pagesize \in 0..MaxPageSize }

\* None (timeout, network failure, HTTP error status)
Failed == [ok |-> FALSE, block |-> NoBlock, cursor |-> NoCursor]

Answer(b, c) == [ok |-> TRUE, block |-> b, cursor |-> c]

\* The run talks to one of two families of servers: one that varies the
\* cursor and sends the same Page when it sends one, and one that varies the
\* Page and pages through MaxTotal rows one row at a time, or sends a cursor
\* that is not a triple.  A run over several ISINs is explored against the
\* second family only.
Servers == {"cursors", "pages"}

\* what a paginated endpoint may answer to a request with this start
PagedResponses(srv, start) ==
    {Failed} \cup
    IF srv = "cursors"
    THEN { Answer(b, c) :
             b \in {NoBlock, EmptyPage, FirstPage}, c \in Cursors(start) }
    ELSE { Answer(b, c) :
             b \in Blocks, c \in {NoCursor, Cursor(start, MaxTotal, 1)} }
         \cup {Answer(NoBlock, BadCursor)}

\* what a one-shot endpoint may answer (the code never reads its cursor)
SingleResponses ==
    {Failed} \cup { Answer(b, NoCursor) : b \in Blocks }

\* HasData asking for a cursor too: the Page of a response without cursor is
\* not passed to the loader
HasData_OnlyWithCursor(r) ==
    r.ok /\ r.block.present /\ r.block.data # <<>> /\ r.cursor.present

\* data and <block> in data and data[<block>].get('data')
HasData(r) == r.ok /\ r.block.present /\ r.block.data # <<>>

\* has_more = False
NO_MORE == -1

\* the unpacking of cursor_data[0] into index, total, pagesize raises
CursorRaises(r) ==
    /\ r.ok
    /\ r.cursor.present
    /\ r.cursor.data # <<>>
    /\ Len(r.cursor.data[1]) # 3

\* PageAfter with the cursor test off by one (<= for <)
PageAfter_OffByOne(r, start) ==
    IF /\ r.ok
       /\ r.cursor.present
       /\ r.cursor.data # <<>>
       /\ start + r.cursor.data[1][3] <= r.cursor.data[1][2]
    THEN start + r.cursor.data[1][3]
    ELSE NO_MORE

\* PageAfter asking for the same page again after a failed request
PageAfter_RetryOnFailure(r, start) ==
    IF ~r.ok
    THEN start
    ELSE IF /\ r.cursor.present
            /\ r.cursor.data # <<>>
            /\ start + r.cursor.data[1][3] < r.cursor.data[1][2]
         THEN start + r.cursor.data[1][3]
         ELSE NO_MORE

\* the cursor test of the paging loops of main: the start of the next
\* request (params['start'] += pagesize; has_more = True), or NO_MORE
PageAfter(r, start) ==
    IF /\ r.ok
       /\ r.cursor.present
       /\ r.cursor.data # <<>>
       /\ start + r.cursor.data[1][3] < r.cursor.data[1][2]
    THEN start + r.cursor.data[1][3]
    ELSE NO_MORE

\* the cursor test of get_all_securities, reached when the page had data:
\* break on no cursor, on an empty cursor and on start + pagesize >= total
SecuritiesAfter(r, start) ==
    IF r.cursor.present
    THEN IF r.cursor.data # <<>>
         THEN IF start + r.cursor.data[1][3] >= r.cursor.data[1][2]
              THEN NO_MORE
              ELSE start + r.cursor.data[1][3]
         ELSE NO_MORE
    ELSE NO_MORE

\* Truncates without the test that leaves update out
Truncates_UpdateToo(mode) == mode \in {"clear", "overwrite", "update"}

\* main: the modes in which clear_table is called, and the mode that returns
\* right after it
Truncates(mode) == mode = "clear" \/ mode = "overwrite"
ReturnsAfterClear(mode) == mode = "clear"

----------------------------------------------------------------------------
(* table_manager.py: main                                                  *)

TMActions == {"create", "drop", "clear", "stats", "list_tables"}

\* --table: "none" when omitted
TMTables == {"none"} \cup Tables

get_all_table_keys == <<"bonds", "quotas", "coupons", "amortizations", "offers">>

\* success after an operation that returned result, keeping only the result
\* of the last operation
success_after_LastOnly(flag, action, result) ==
    IF action \in {"create", "drop", "clear"} THEN result ELSE flag

\* main: "if not create_table(...): success = False", the same for drop_table
\* and clear_table; the result of gather_statistics changes nothing
success_after(flag, action, result) ==
    IF action \in {"create", "drop", "clear"} /\ ~result THEN FALSE ELSE flag

\* the table manager has not been started
TMIdle ==
    /\ tm_args = [action |-> "list_tables", table |-> "none"]
    /\ tm_conn = "none"
    /\ tm_pc = "idle"
    /\ tables_to_process = <<>>
    /\ table_idx = 0
    /\ success = TRUE
    /\ tm_exit = 0
    /\ attempted = <<>>
    /\ failed = {}

\* main: conn = get_db_connection(config); if not conn: return
TMConnect ==
    /\ tm_pc = "connect"
    /\ \E connected \in BOOLEAN :
        IF connected
        THEN tm_conn' = "open" /\ tm_pc' = "dispatch"
        ELSE tm_conn' = "failed" /\ tm_pc' = "done"
    /\ UNCHANGED <<ld_vars, coll_vars, tm_args, tables_to_process, table_idx, success,
                   tm_exit, attempted, failed>>

\* main: list_tables returns at once; the other actions set up the loop
TMDispatch ==
    /\ tm_pc = "dispatch"
    /\ IF tm_args.action = "list_tables"
       THEN /\ tm_pc' = "finally"
            /\ UNCHANGED <<tables_to_process, table_idx, success>>
       ELSE /\ tables_to_process' = IF tm_args.table # "none"
                                    THEN <<tm_args.table>>
                                    ELSE get_all_table_keys
            /\ success' = TRUE
            /\ table_idx' = 1
            /\ tm_pc' = "loop"
    /\ UNCHANGED <<ld_vars, coll_vars, tm_args, tm_conn, tm_exit, attempted, failed>>

\* main: one iteration of "for table_key in tables_to_process": the operation
\* of the action is called on the table and returns truthy or falsy
\* (execute_query catches the database error, rolls back and returns None;
\* gather_statistics returns True whatever its queries gave)
TMProcess ==
    /\ tm_pc = "loop"
    /\ table_idx <= Len(tables_to_process)
    /\ \E result \in IF tm_args.action = "stats" THEN {TRUE} ELSE BOOLEAN :
        /\ success' = success_after(success, tm_args.action, result)
        /\ failed' = IF result THEN failed
                      ELSE failed \cup {tables_to_process[table_idx]}
    /\ attempted' = Append(attempted, tables_to_process[table_idx])
    /\ table_idx' = table_idx + 1
    /\ UNCHANGED <<ld_vars, coll_vars, tm_args, tm_conn, tm_pc, tables_to_process,
                   tm_exit>>

\* main: after the loop: sys.exit(1) if not success
TMCheck ==
    /\ tm_pc = "loop"
    /\ table_idx > Len(tables_to_process)
    /\ tm_exit' = IF ~success THEN 1 ELSE tm_exit
    /\ tm_pc' = "finally"
    /\ UNCHANGED <<ld_vars, coll_vars, tm_args, tm_conn, tables_to_process, table_idx,
                   success, attempted, failed>>

\* main: finally: conn.close()
TMFinally ==
    /\ tm_pc = "finally"
    /\ tm_conn' = "closed"
    /\ tm_pc' = "done"
    /\ UNCHANGED <<ld_vars, coll_vars, tm_args, tables_to_process, table_idx, success,
                   tm_exit, attempted, failed>>

NextTM == TMConnect \/ TMDispatch \/ TMProcess \/ TMCheck \/ TMFinally

----------------------------------------------------------------------------
(* insert_data_generic called on its own, Page after Page                  *)

\* the loader is not called on its own
LoaderIdle ==
    /\ ld_pc = "idle"
    /\ ld_table = {}
    /\ ld_page = NoBlock
    /\ ld_options = <<>>
    /\ ld_before = {}
    /\ ld_outcome = "none"
    /\ rows_affected = 0
    /\ ld_fail_at = 0
    /\ ld_calls = 0

\* insert_data_generic(conn, table_name, data, config, table_key) on the Page
\* ld_page: the table after it and the count it prints (it prints none when
\* it returns early or rolls back)
LoaderCall ==
    /\ ld_pc = "call"
    /\ \E fail_at \in 0..Len(ld_page.data) :
        LET res == insert_data_generic(ld_table, ld_page, ld_options, fail_at)
        IN  /\ res.outcome = "noop" => fail_at = 0
            /\ ld_table' = res.tbl
            /\ ld_outcome' = res.outcome
            /\ rows_affected' = res.inserted_count
            /\ ld_fail_at' = fail_at
    /\ ld_before' = ld_table
    /\ ld_calls' = ld_calls + 1
    /\ ld_pc' = "returned"
    /\ UNCHANGED <<coll_vars, tm_vars, ld_page, ld_options>>

\* the caller goes on with the next Page
LoaderNextPage ==
    /\ ld_pc = "returned"
    /\ ld_calls < MaxCalls
    /\ ld_page' \in LoaderPages
    /\ ld_pc' = "call"
    /\ UNCHANGED <<coll_vars, tm_vars, ld_table, ld_options, ld_before,
                   ld_outcome, rows_affected, ld_fail_at, ld_calls>>

NextLoader == LoaderCall \/ LoaderNextPage

----------------------------------------------------------------------------
(* The run: main                                                           *)

Bump(n) == IF n < MaxCount THEN n + 1 ELSE n
Record(trace, x) == IF Len(trace) < MaxTrace THEN Append(trace, x) ELSE trace

\* a row of a JSON data list is an array, never the str a dict key is
RowIsKey(row, key) == FALSE
\* 'securities' in all_securities_data, evaluated on a list
KeyInList(lst, key) == \E i \in DOMAIN lst : RowIsKey(lst[i], key)

\* the fetch loop of main selected by args.table and args.isin
Loop ==
    CASE args.table = "bonds"  /\ args.isin # <<>> -> "bonds_isin"
      [] args.table = "bonds"  /\ args.isin = <<>> -> "bonds_all"
      [] args.table = "quotas" /\ args.isin # <<>> -> "quotas_isin"
      [] args.table = "quotas" /\ args.isin = <<>> -> "quotas_all"
      [] args.table \in {"coupons", "amortizations", "offers"}
            /\ args.isin # <<>> -> "bondization_isin"
      [] OTHER -> "bondization_all"

Paged == Loop \in {"quotas_all", "bondization_isin", "bondization_all"}

Init ==
    /\ args \in [table : Tables, mode : Modes, isin : IsinArgs]
    /\ start_date = 1
    /\ end_date \in start_date..(IF args.table = "quotas" THEN MaxDays ELSE 1)
    /\ config_schema \in Schemas
    /\ table \in InitTables
    /\ server \in IF Len(args.isin) > 1 THEN {"pages"} ELSE Servers
    /\ table0 = table
    /\ isin_list = <<>>
    /\ conn = "none"
    /\ pc = "get_isin_list"
    /\ exc = "none"
    /\ date = 0
    /\ isin_idx = 0
    /\ params_start = 0
    /\ data = Failed
    /\ securities = <<>>
    /\ gas_start = 0
    /\ gas_caller = "none"
    /\ http_calls = 0
    /\ requests = <<>>
    /\ trunc_calls = 0
    /\ committed = {}
    /\ page_failures = 0
    /\ runs = 1
    /\ run = 1
    /\ log = <<>>
    /\ log_pos = 0
    /\ table1 = {}
    /\ conn1 = "none"
    /\ failures1 = 0
    /\ TMIdle
    /\ LoaderIdle

\* the responses the server may give to the next request: in a second run
\* the one it gave to the same request of the first run
Served(choices) ==
    IF run = 2 /\ log_pos < Len(log) THEN {log[log_pos + 1]} ELSE choices

\* the server's answer r is remembered for a second run (a log longer than
\* MaxLog is not replayed)
Remember(r) ==
    /\ log' = IF runs = 2 /\ run = 1 /\ Len(log) <= MaxLog
              THEN Append(log, r) ELSE log
    /\ log_pos' = IF run = 2 /\ log_pos < Len(log)
                  THEN log_pos + 1 ELSE log_pos

\* get_isin_list, the part before get_all_securities returns
GetIsinList ==
    /\ pc = "get_isin_list"
    /\ IF args.isin # <<>>
       THEN /\ isin_list' = [i \in 1..Len(args.isin) |-> Upper(args.isin[i])]
            /\ pc' = "check_isins"
            /\ UNCHANGED <<securities, gas_start, gas_caller>>
       ELSE /\ securities' = <<>>
            /\ gas_start' = 0
            /\ gas_caller' = "isin_list"
            /\ pc' = "get_all_securities"
            /\ UNCHANGED isin_list
    /\ UNCHANGED <<ld_vars, tm_vars, exc, server, run_vars, log, log_pos, args, start_date, end_date, config_schema, conn, table,
                   date, isin_idx, params_start, data, http_calls, requests,
                   trunc_calls, table0, committed, page_failures>>

\* get_all_securities: one iteration of its while loop; an exception raised
\* in it is caught nowhere (get_isin_list is called before the try block, and
\* the try block has no except clause)
GetAllSecurities ==
    /\ pc = "get_all_securities"
    /\ \E r \in Served(PagedResponses(server, gas_start)) :
        /\ Remember(r)
        /\ HasData(r) => Len(securities) + Len(r.block.data) <= MaxSecurities
        /\ http_calls' = Bump(http_calls)
        /\ requests' = Record(requests, gas_start)
        /\ IF ~HasData(r)
           THEN /\ pc' = "securities_returned"
                /\ UNCHANGED <<securities, gas_start, exc>>
           ELSE /\ securities' = securities \o r.block.data
                /\ IF CursorRaises(r)
                   THEN /\ exc' = "ValueError"
                        /\ pc' = "raised"
                        /\ UNCHANGED gas_start
                   ELSE IF SecuritiesAfter(r, gas_start) # NO_MORE
                        THEN /\ gas_start' = SecuritiesAfter(r, gas_start)
                             /\ pc' = "get_all_securities"
                             /\ UNCHANGED exc
                        ELSE /\ pc' = "securities_returned"
                             /\ UNCHANGED <<gas_start, exc>>
    /\ UNCHANGED <<ld_vars, tm_vars, server, run_vars, args, start_date, end_date, config_schema, isin_list, conn,
                   table, date, isin_idx, params_start, data, gas_caller,
                   trunc_calls, table0, committed, page_failures>>

\* get_isin_list after get_all_securities returned, and main's bonds branch
\* after it returned: both look for dict keys in the returned list of rows
SecuritiesReturned ==
    /\ pc = "securities_returned"
    /\ IF gas_caller = "isin_list"
       THEN /\ isin_list' =
                IF securities = <<>>
                THEN <<>>
                ELSE IF \/ KeyInList(securities, "securities")
                        \/ KeyInList(securities, "columns")
                     THEN [i \in 1..Len(securities) |-> securities[i]]
                     ELSE <<>>
            /\ pc' = "check_isins"
            /\ UNCHANGED <<table, committed, page_failures>>
       ELSE /\ LET page == Page(<<>>, securities)
                   res == IF securities # <<>>
                             /\ KeyInList(securities, "columns")
                             /\ KeyInList(securities, "data")
                          THEN insert_data_generic(table, page,
                                                   config_schema, 0)
                          ELSE [tbl |-> table, outcome |-> "noop",
                                inserted_count |-> 0]
               IN  /\ table' = res.tbl
                   /\ UNCHANGED <<committed, page_failures>>
            /\ pc' = "finally"
            /\ UNCHANGED isin_list
    /\ UNCHANGED <<ld_vars, tm_vars, exc, server, run_vars, log, log_pos, args, start_date, end_date, config_schema, conn, date,
                   isin_idx, params_start, data, securities, gas_start,
                   gas_caller, http_calls, requests, trunc_calls, table0>>

\* main: if not isin_list and not args.isin: return
CheckIsins ==
    /\ pc = "check_isins"
    /\ pc' = IF isin_list = <<>> /\ args.isin = <<>> THEN "done" ELSE "connect"
    /\ UNCHANGED <<ld_vars, tm_vars, exc, server, run_vars, log, log_pos, args, start_date, end_date, config_schema, isin_list, conn,
                   table, date, isin_idx, params_start, data, securities,
                   gas_start, gas_caller, http_calls, requests, trunc_calls,
                   table0, committed, page_failures>>

\* main: conn = get_db_connection(config); if not conn: return
Connect ==
    /\ pc = "connect"
    /\ \E connected \in BOOLEAN :
        IF connected
        THEN conn' = "open" /\ pc' = "table_name"
        ELSE conn' = "failed" /\ pc' = "done"
    /\ UNCHANGED <<ld_vars, tm_vars, exc, server, run_vars, log, log_pos, args, start_date, end_date, config_schema, isin_list,
                   table, date, isin_idx, params_start, data, securities,
                   gas_start, gas_caller, http_calls, requests, trunc_calls,
                   table0, committed, page_failures>>

\* main: base_url, default_limit and table_name are read from the
\* configuration between the connection and the try block; config.get raises
\* NoOptionError when the option is not configured
TableName ==
    /\ pc = "table_name"
    /\ \E configured \in BOOLEAN :
        IF configured
        THEN pc' = "mode" /\ UNCHANGED exc
        ELSE pc' = "raised" /\ exc' = "NoOptionError"
    /\ UNCHANGED <<ld_vars, tm_vars, server, run_vars, log, log_pos, args, start_date, end_date,
                   config_schema, isin_list, conn, table, date, isin_idx,
                   params_start, data, securities, gas_start, gas_caller,
                   http_calls, requests, trunc_calls, table0, committed,
                   page_failures>>

\* main: the mode test at the head of the try block, and the dispatch on
\* args.table that sets up the first fetch
ApplyMode ==
    /\ pc = "mode"
    /\ \E raises \in BOOLEAN :
        /\ IF Truncates(args.mode)
           THEN /\ table' = clear_table(table, raises)
                /\ trunc_calls' = trunc_calls + 1
           ELSE /\ raises = FALSE
                /\ UNCHANGED <<table, trunc_calls>>
        /\ IF ReturnsAfterClear(args.mode)
           THEN /\ pc' = "finally"
                /\ UNCHANGED <<date, isin_idx, params_start, securities,
                               gas_start, gas_caller, requests>>
           ELSE /\ requests' = <<>>
                /\ params_start' = 0
                /\ IF Loop = "bonds_all"
                   THEN /\ securities' = <<>>
                        /\ gas_start' = 0
                        /\ gas_caller' = "main"
                        /\ pc' = "get_all_securities"
                        /\ UNCHANGED <<date, isin_idx>>
                   ELSE /\ date' = IF args.table = "quotas"
                                   THEN start_date ELSE 0
                        /\ isin_idx' = IF args.isin # <<>> THEN 1 ELSE 0
                        /\ pc' = "fetch"
                        /\ UNCHANGED <<securities, gas_start, gas_caller>>
    /\ UNCHANGED <<ld_vars, tm_vars, exc, server, run_vars, log, log_pos, args, start_date, end_date, config_schema, isin_list, conn,
                   data, http_calls, table0, committed, page_failures>>

\* main: data = fetch_moex_data(url, params) in any of the fetch loops
Fetch ==
    /\ pc = "fetch"
    /\ \E r \in Served(IF Paged THEN PagedResponses(server, params_start)
                          ELSE SingleResponses) :
        /\ Remember(r)
        /\ data' = r
    /\ http_calls' = Bump(http_calls)
    /\ requests' = Record(requests, params_start)
    /\ pc' = "load"
    /\ UNCHANGED <<ld_vars, tm_vars, exc, server, run_vars, args, start_date, end_date, config_schema, isin_list, conn,
                   table, date, isin_idx, params_start, securities, gas_start,
                   gas_caller, trunc_calls, table0, committed, page_failures>>

\* main: the rest of the loop body after the fetch: insert_data_generic when
\* the block has data, the cursor test, and the step to the next page, ISIN
\* or date; an exception raised by the cursor test leaves the try block
\* through finally
Load ==
    /\ pc = "load"
    /\ \E fail_at \in 0..(IF HasData(data) THEN Len(data.block.data) ELSE 0) :
        LET res == IF HasData(data)
                   THEN insert_data_generic(table, data.block, config_schema,
                                            fail_at)
                   ELSE [tbl |-> table, outcome |-> "noop",
                         inserted_count |-> 0]
            next_start == IF Paged THEN PageAfter(data, params_start)
                          ELSE NO_MORE
            more_isins == isin_idx # 0 /\ isin_idx < Len(isin_list)
            more_dates == date # 0 /\ date < end_date
        IN  /\ res.outcome = "noop" => fail_at = 0
            /\ table' = res.tbl
            /\ page_failures' = IF res.outcome = "error"
                                THEN Bump(page_failures) ELSE page_failures
            /\ committed' = IF res.outcome = "ok"
                            THEN committed \cup
                                 {<<r, page_failures>> : r \in res.tbl \ table}
                            ELSE committed
            /\ IF Paged /\ CursorRaises(data)
               THEN /\ exc' = "ValueError"
                    /\ pc' = "finally"
                    /\ UNCHANGED <<params_start, date, isin_idx, requests>>
               ELSE /\ UNCHANGED exc
                    /\ IF next_start # NO_MORE
                       THEN /\ params_start' = next_start
                            /\ pc' = "fetch"
                            /\ UNCHANGED <<date, isin_idx, requests>>
                       ELSE /\ params_start' = 0
                            /\ requests' = <<>>
                            /\ IF more_isins
                               THEN /\ isin_idx' = isin_idx + 1
                                    /\ pc' = "fetch"
                                    /\ UNCHANGED date
                               ELSE IF more_dates
                                    THEN /\ date' = date + 1
                                         /\ isin_idx' =
                                                IF isin_idx # 0 THEN 1 ELSE 0
                                         /\ pc' = "fetch"
                                    ELSE /\ pc' = "finally"
                                         /\ UNCHANGED <<date, isin_idx>>
    /\ data' = Failed
    /\ UNCHANGED <<ld_vars, tm_vars, server, run_vars, log, log_pos, args, start_date, end_date, config_schema, isin_list, conn,
                   securities, gas_start, gas_caller, http_calls, trunc_calls,
                   table0>>

\* main: finally: conn.close(), then the return or the exception goes on
Finally ==
    /\ pc = "finally"
    /\ conn' = "closed"
    /\ pc' = IF exc = "none" THEN "done" ELSE "raised"
    /\ UNCHANGED <<ld_vars, tm_vars, exc, server, run_vars, log, log_pos, args, start_date, end_date, config_schema, isin_list,
                   table, date, isin_idx, params_start, data, securities,
                   gas_start, gas_caller, http_calls, requests, trunc_calls,
                   table0, committed, page_failures>>

\* the collector is started again with the same arguments
Rerun ==
    /\ pc = "done"
    /\ run < runs
    /\ Len(log) <= MaxLog
    /\ run' = run + 1
    /\ table1' = table
    /\ conn1' = conn
    /\ failures1' = page_failures
    /\ log_pos' = 0
    /\ isin_list' = <<>>
    /\ conn' = "none"
    /\ pc' = "get_isin_list"
    /\ date' = 0
    /\ isin_idx' = 0
    /\ params_start' = 0
    /\ data' = Failed
    /\ securities' = <<>>
    /\ gas_start' = 0
    /\ gas_caller' = "none"
    /\ http_calls' = 0
    /\ requests' = <<>>
    /\ trunc_calls' = 0
    /\ committed' = {}
    /\ page_failures' = 0
    /\ UNCHANGED <<ld_vars, tm_vars, exc, server, args, start_date, end_date, config_schema, table,
                   table0, runs, log>>

\* the run is over: main returned, or an exception left it
Ended == pc \in {"done", "raised"}

\* the exit status of the process: 1 after an uncaught exception, 0 after a
\* return of main (main has no sys.exit on these paths)
exit_status == IF pc = "raised" THEN 1 ELSE 0

Next ==
    \/ GetIsinList
    \/ GetAllSecurities
    \/ SecuritiesReturned
    \/ CheckIsins
    \/ Connect
    \/ TableName
    \/ ApplyMode
    \/ Fetch
    \/ Load
    \/ Finally

Spec == Init /\ [][Next]_vars

\* Two runs in a row with the same arguments, Mode=update, on a table that
\* is empty before the first, against the server that varies the Page and
\* answers the second run as it answered the first.
InitTwice ==
    /\ args \in [table : {"coupons"}, mode : {"update"},
                 isin : {<<>>, <<isin_a>>}]
    /\ start_date = 1
    /\ end_date = 1
    /\ config_schema \in Schemas
    /\ table = {}
    /\ server = "pages"
    /\ table0 = table
    /\ isin_list = <<>>
    /\ conn = "none"
    /\ pc = "get_isin_list"
    /\ exc = "none"
    /\ date = 0
    /\ isin_idx = 0
    /\ params_start = 0
    /\ data = Failed
    /\ securities = <<>>
    /\ gas_start = 0
    /\ gas_caller = "none"
    /\ http_calls = 0
    /\ requests = <<>>
    /\ trunc_calls = 0
    /\ committed = {}
    /\ page_failures = 0
    /\ runs = 2
    /\ run = 1
    /\ log = <<>>
    /\ log_pos = 0
    /\ table1 = {}
    /\ conn1 = "none"
    /\ failures1 = 0
    /\ TMIdle
    /\ LoaderIdle

NextTwice == Next \/ Rerun

SpecTwice == InitTwice /\ [][NextTwice]_vars

\* The runs followed for termination: coupons in Mode=update on an empty
\* table, against the server that varies the cursor.  The program takes its
\* next step as long as it has one.
InitLive ==
    /\ Init
    /\ args.table = "coupons"
    /\ args.mode = "update"
    /\ args.isin \in {<<>>, <<isin_a>>}
    /\ server = "cursors"
    /\ table = {}

FairSpec == InitLive /\ [][Next]_vars /\ WF_vars(Next)

\* no collector is running
CollectorIdle ==
    /\ args = [table |-> "bonds", mode |-> "update", isin |-> <<>>]
    /\ start_date = 1
    /\ end_date = 1
    /\ config_schema = <<c_id, c_nm>>
    /\ table = {}
    /\ server = "pages"
    /\ table0 = {}
    /\ isin_list = <<>>
    /\ conn = "none"
    /\ pc = "done"
    /\ exc = "none"
    /\ date = 0
    /\ isin_idx = 0
    /\ params_start = 0
    /\ data = Failed
    /\ securities = <<>>
    /\ gas_start = 0
    /\ gas_caller = "none"
    /\ http_calls = 0
    /\ requests = <<>>
    /\ trunc_calls = 0
    /\ committed = {}
    /\ page_failures = 0
    /\ runs = 1
    /\ run = 1
    /\ log = <<>>
    /\ log_pos = 0
    /\ table1 = {}
    /\ conn1 = "none"
    /\ failures1 = 0

\* A run of table_manager.py, no collector running.
InitTM ==
    /\ tm_args \in [action : TMActions, table : TMTables]
    /\ tm_conn = "none"
    /\ tm_pc = "connect"
    /\ tables_to_process = <<>>
    /\ table_idx = 0
    /\ success = TRUE
    /\ tm_exit = 0
    /\ attempted = <<>>
    /\ failed = {}
    /\ CollectorIdle
    /\ LoaderIdle

SpecTM == InitTM /\ [][NextTM]_vars

\* insert_data_generic called on MaxCalls Pages in a row, on a table that is
\* empty or not, with a schema section that has options.
InitLoader ==
    /\ ld_pc = "call"
    /\ ld_table \in InitTables
    /\ ld_page \in LoaderPages
    /\ ld_options \in Schemas \ {<<>>}
    /\ ld_before = ld_table
    /\ ld_outcome = "none"
    /\ rows_affected = 0
    /\ ld_fail_at = 0
    /\ ld_calls = 0
    /\ CollectorIdle
    /\ TMIdle

SpecLoader == InitLoader /\ [][NextLoader]_vars

----------------------------------------------------------------------------
(* Properties                                                              *)

\* the sequence in progress is continued by the next request
Continues == pc' = "fetch" /\ isin_idx' = isin_idx /\ date' = date

\* what main does when a sequence is over: the next ISIN, else the next date,
\* else the end of the try block
GoesOn ==
    IF isin_idx # 0 /\ isin_idx < Len(isin_list)
    THEN pc' = "fetch" /\ isin_idx' = isin_idx + 1 /\ date' = date
    ELSE IF date # 0 /\ date < end_date
         THEN pc' = "fetch" /\ date' = date + 1
         ELSE pc' = "finally"

\* C1: a run with Mode=clear that ends (the connection having been possible)
\* has issued the TRUNCATE, has made no HTTP fetch call and has loaded no row.
C1_ClearTruncatesWithoutFetch ==
    (args.mode = "clear" /\ pc = "done" /\ conn # "failed")
        => (trunc_calls = 1 /\ http_calls = 0 /\ committed = {})

\* C2: a run without --isin whose universe enumeration returned rows goes on
\* to the connection and the processing of the table; it does not end before.
C2_UniverseRunProcessesTable ==
    (args.isin = <<>> /\ securities # <<>> /\ pc = "done") => conn # "none"

\* C3: a run with Mode=overwrite that ends (the connection having been
\* possible) has issued the TRUNCATE exactly once, and at the time it was
\* issued nothing had been fetched or loaded.
C3_OverwriteTruncatesOnceFirst ==
    /\ (args.mode = "overwrite" /\ pc = "done" /\ conn # "failed")
           => trunc_calls = 1
    /\ (args.mode = "overwrite" /\ conn = "open" /\ trunc_calls = 0)
           => (/\ pc \in {"table_name", "mode", "raised"}
               /\ committed = {} /\ table = table0)

\* C4: in Mode=update no TRUNCATE is issued and every row the table held
\* before the run is still in it.
C4_UpdateNeverTruncates ==
    args.mode = "update" => (trunc_calls = 0 /\ table0 \subseteq table)

C4_Witness ==
    /\ args.mode = "update"
    /\ pc = "done"
    /\ table0 # {}
    /\ page_failures > 0
    /\ committed # {}
    /\ table # table0

C6_Step ==
    (pc = "load" /\ Paged /\ data.ok) =>
        /\ (data.cursor.present /\ data.cursor.data # <<>>
               /\ ~CursorRaises(data)) =>
              LET total == data.cursor.data[1][2]
                  pagesize == data.cursor.data[1][3]
              IN  /\ (params_start + pagesize < total) <=> Continues
                  /\ Continues => params_start' = params_start + pagesize
        /\ ~data.cursor.present => ~Continues
        /\ (requests = <<0, 1, 2>> /\ data.cursor = Cursor(2, 3, 1))
              => (~Continues /\ GoesOn)

C6_CursorProtocol ==
    /\ [](requests # <<>> => requests[1] = 0)
    /\ [][C6_Step]_vars

C6_Witness ==
    /\ pc = "load"
    /\ Paged
    /\ requests = <<0, 1, 2>>
    /\ data.cursor = Cursor(2, 3, 1)

\* C7: every run ends, so that every fetch sequence in it is finite, whatever
\* the server answers.
C7_EverySequenceFinite == <>Ended

\* C8: a Page is loaded atomically: after insert_data_generic either the table
\* is as before or every row of the Page is in it (by key); rows stored before
\* stay; after a rolled-back Page the run goes on with the next page, ISIN or
\* date; and the rows of every committed Page are in the table ever after.
PageKeys(page) ==
    IF \E i \in DOMAIN page.columns : page.columns[i] = Upper(KeyCol)
    THEN LET pos == CHOOSE i \in DOMAIN page.columns :
                        page.columns[i] = Upper(KeyCol)
         IN  {page.data[k][pos] : k \in {n \in DOMAIN page.data :
                                            pos <= Len(page.data[n])}}
    ELSE {}

C8_Step ==
    (pc = "load" /\ HasData(data)) =>
        /\ \/ table' = table
           \/ \A key \in PageKeys(data.block) :
                 \E r \in table' : r[KeyCol] = key
        /\ table \subseteq table'
        /\ page_failures' # page_failures =>
              (table' = table /\ (Continues \/ GoesOn))

C8_PageAtomic ==
    /\ [](\A c \in committed : c[1] \in table)
    /\ [][C8_Step]_vars

\* a Page committed, then a Page was rolled back, then another Page committed
C8_Witness ==
    /\ \E c \in committed : c[2] = 0
    /\ \E c \in committed : c[2] > 0
    /\ \A c \in committed : c[1] \in table

\* C9: a failed request gives no Page: nothing is written, the sequence is not
\* continued, the rows loaded before stay, and the run goes on with the next
\* ISIN or date (or ends normally when there is none).
C9_Step ==
    (pc = "load" /\ ~data.ok) =>
        /\ table' = table
        /\ committed' = committed
        /\ page_failures' = page_failures
        /\ ~Continues
        /\ GoesOn

C9_FailedFetchEndsSequence == [][C9_Step]_vars

C9_Witness ==
    /\ pc = "load"
    /\ ~data.ok
    /\ Paged
    /\ params_start > 0
    /\ committed # {}
    /\ isin_idx < Len(isin_list)

\* C10: the destination columns written for a Page are the mapped names of
\* the Page columns that are keys of the Schema Mapping, in Page column
\* order; the two lists have the same length and correspond position by
\* position; a row added to the table holds, for each destination column,
\* the row's value at the position of that column in the Page (NULL when the
\* Page does not supply it), and nothing of the other Page columns.
ValueOf(page, row, name) ==
    IF \E i \in DOMAIN page.columns : page.columns[i] = name
    THEN LET pos == CHOOSE i \in DOMAIN page.columns : page.columns[i] = name
         IN  IF pos <= Len(row) THEN row[pos] ELSE NULL
    ELSE NULL

C10_Lists ==
    (pc = "load" /\ HasData(data)) =>
        LET api_columns == data.block.columns
            mapping == get_column_mapping(config_schema)
            cols == db_columns_in_order(api_columns, mapping)
            idx == api_indices_in_order(api_columns, mapping)
            keys == {Upper(config_schema[i]) : i \in DOMAIN config_schema}
        IN  /\ Len(cols) = Len(idx)
            /\ \A j \in 1..Len(idx) : idx[j] \in 1..Len(api_columns)
            /\ \A j \in 1..(Len(idx) - 1) : idx[j] < idx[j + 1]
            /\ {idx[j] : j \in 1..Len(idx)} =
                   {i \in 1..Len(api_columns) : api_columns[i] \in keys}
            /\ \A j \in 1..Len(cols) :
                   /\ \E i \in DOMAIN config_schema : config_schema[i] = cols[j]
                   /\ Upper(cols[j]) = api_columns[idx[j]]
            /\ (api_columns = <<c_ID, c_NM, c_EX>>
                   /\ config_schema = <<c_id, c_nm>>)
                   => (cols = <<c_id, c_nm>> /\ idx = <<1, 2>>)

C10_Step ==
    (pc = "load" /\ HasData(data)) =>
        \A r \in table' \ table :
            \E k \in DOMAIN data.block.data :
                \A c \in TableCols :
                    r[c] = ValueOf(data.block, data.block.data[k], Upper(c))

C10_ColumnProjection == []C10_Lists /\ [][C10_Step]_vars

\* the Page (NM, ID) was loaded, its first row stored as id = 2, nm = 2, and
\* the Page (ID, EX, NM), stored as id = 1, nm = 1
C10_Witness ==
    /\ table0 = {}
    /\ table = {StoredRow(1, 1), StoredRow(2, 2)}
    /\ pc = "done"

\* C11: a Page column whose name equals a key of the Schema Mapping up to
\* letter case is resolved: its position is among the resolved positions and
\* its mapped destination column among the columns written.
C11_ResolvesAnyCase ==
    (pc = "load" /\ HasData(data)) =>
        LET api_columns == data.block.columns
            mapping == get_column_mapping(config_schema)
            cols == db_columns_in_order(api_columns, mapping)
            idx == api_indices_in_order(api_columns, mapping)
        IN  \A i \in DOMAIN api_columns :
                Upper(api_columns[i]) \in DOMAIN mapping =>
                    \E j \in DOMAIN idx :
                        /\ idx[j] = i
                        /\ cols[j] = mapping[Upper(api_columns[i])]

\* C12: a run for the quote Record Kind that gets past the mode test drives a
\* fetch sequence for every date of the range, in ascending order: it starts
\* at start_date, steps from a date to the next one only, whatever the
\* fetches of the date gave, and ends having fetched for end_date.
C12_Step ==
    (args.table = "quotas" /\ pc = "load") =>
        /\ date \in start_date..end_date
        /\ date' \in {date, date + 1}
        /\ (pc' = "finally") <=>
               (date = end_date /\ ~(isin_idx # 0 /\ isin_idx < Len(isin_list)))

C12_Ends ==
    (/\ args.table = "quotas" /\ args.mode # "clear"
     /\ pc = "done" /\ conn # "failed")
        => date = end_date

C12_EveryDateFetched == []C12_Ends /\ [][C12_Step]_vars
\* C13: a run that has ended, by a return or by an exception, does not leave
\* the connection it opened open.
C13_ConnectionClosedAtExit == Ended => conn # "open"

\* C14: a run that returns after a Page was rolled back or after the
\* connection failed exits with a non-zero status, and the rows of the Pages
\* that committed are in the table.
C14_ErrorsGiveNonZeroExit ==
    (pc = "done" /\ (page_failures > 0 \/ conn = "failed")) =>
        /\ exit_status # 0
        /\ \A c \in committed : c[1] \in table
\* C15: a response of a paginated fetch whose block is absent or has no data
\* ends the sequence: the next request, if any, belongs to the next ISIN or
\* date, whatever the cursor of the response reports (a well-formed one); in
\* get_all_securities a response that adds no row is the last one.
C15_Step ==
    /\ (pc = "load" /\ Paged /\ data.ok /\ ~HasData(data)
           /\ ~CursorRaises(data)) => (~Continues /\ GoesOn)
    /\ (pc = "get_all_securities" /\ securities' = securities)
           => pc' = "securities_returned"

C15_EmptyPageEndsSequence == [][C15_Step]_vars
\* C16: with an empty Schema Mapping the first Page that has data is the last
\* thing fetched for the Record Kind: nothing is written for it and no
\* request follows it; no row is ever written, and a run that returns has
\* closed its connection.
C16_Step ==
    (pc = "load" /\ HasData(data) /\ config_schema = <<>>) =>
        (table' = table /\ pc' = "finally" /\ exc' = "none")

C16_Ends ==
    config_schema = <<>> =>
        /\ committed = {}
        /\ pc = "done" => conn # "open"

C16_EmptyMappingAbortsKind == []C16_Ends /\ [][C16_Step]_vars
\* C17: a response of unexpected structure (the block missing, or a cursor
\* whose row is not a triple) raises no exception and the run goes on with
\* the next page, ISIN or date; nothing is written for a missing block.
C17_Step ==
    /\ (pc = "load" /\ data.ok
           /\ (~data.block.present \/ (Paged /\ CursorRaises(data)))) =>
          /\ exc' = "none"
          /\ Continues \/ GoesOn
          /\ ~data.block.present => table' = table
    /\ pc = "get_all_securities" => exc' = "none"

C17_UnexpectedStructureIsEmptyPage == [][C17_Step]_vars
\* C18: a table_manager run with action create, drop or clear and no --table
\* that got its connection has, when it ends, called the operation on all
\* five tables in order, whatever the earlier ones returned; its exit status
\* is 1 exactly when one of them failed; and the connection is closed.
C18_AllTablesAttempted ==
    (/\ tm_pc = "done" /\ tm_conn # "failed"
     /\ tm_args.action \in {"create", "drop", "clear"}
     /\ tm_args.table = "none")
        => /\ attempted = get_all_table_keys
           /\ (tm_exit = 1) <=> (failed # {})
           /\ tm_exit \in {0, 1}
           /\ tm_conn = "closed"

\* the operation failed on the first table only, the four others were
\* attempted and the run exited with status 1
C18_Witness ==
    /\ tm_pc = "done"
    /\ tm_args = [action |-> "drop", table |-> "none"]
    /\ failed = {"bonds"}
    /\ attempted = get_all_table_keys
    /\ tm_exit = 1
    /\ tm_conn = "closed"
\* C19: within a fetch sequence requests and loads alternate: a request is
\* followed by the load of its response; the load passes the Page, when the
\* response has one, to insert_data_generic, whose transaction commits (the
\* table is what the insert makes it) or rolls back (counted, up to MaxCount,
\* the table as before), and issues no request; and no fetched Page is held when a request
\* is issued.
C19_Step ==
    /\ pc = "fetch" => (pc' = "load" /\ table' = table)
    /\ pc = "load" =>
          /\ http_calls' = http_calls
          /\ (data.ok /\ data.block.present /\ data.block.data # <<>>) =>
                \/ /\ table' = insert_data_generic(table, data.block,
                                                    config_schema, 0).tbl
                   /\ page_failures' = page_failures
                \/ /\ table' = table
                   /\ page_failures' = Bump(page_failures)

C19_FetchAndLoadAlternate ==
    /\ [](pc = "fetch" => data = Failed)
    /\ [][C19_Step]_vars

\* the Page of the request at start 0 is committed and the request at start 1
\* is about to be issued
C19_Witness ==
    /\ pc = "fetch"
    /\ Paged
    /\ requests = <<0>>
    /\ params_start = 1
    /\ committed # {}
\* C20: on every response a paging loop of main receives (its cursor well
\* formed), the loop of get_all_securities would decide the same at the same
\* start: both stop, or both go on with the same next start.
C20_SameCursorProtocol ==
    (pc = "load" /\ Paged /\ ~CursorRaises(data)) =>
        PageAfter(data, params_start) =
            IF HasData(data) THEN SecuritiesAfter(data, params_start)
            ELSE NO_MORE
\* every statement of the Page is one the database accepts: it names each
\* column once, names columns of the table only and gives the key a value
AllAccepted(page, options) ==
    LET mapping == get_column_mapping(options)
        cols == db_columns_in_order(page.columns, mapping)
        idx == api_indices_in_order(page.columns, mapping)
    IN  \A k \in DOMAIN page.data :
            ~StatementRejected(cols, db_row(page.data[k], idx))

\* C21: a load that the database does not fail for a reason of its own, all of
\* whose statements are acceptable, commits whatever keys are stored already
\* or repeated in the Page; after a committed load the rows stored before are
\* unchanged, every key of the Page is stored, and the count reported is the
\* number of rows added.
C21_DuplicatesSkipped ==
    ld_pc = "returned" =>
        /\ (ld_fail_at = 0 /\ ld_page.data # <<>> /\ ld_page.columns # <<>>
               /\ db_columns_in_order(ld_page.columns,
                                      get_column_mapping(ld_options)) # <<>>
               /\ AllAccepted(ld_page, ld_options))
              => ld_outcome = "ok"
        /\ ld_outcome = "ok" =>
              /\ ld_before \subseteq ld_table
              /\ \A key \in PageKeys(ld_page) :
                     \E r \in ld_table : r[KeyCol] = key
              /\ rows_affected = Cardinality(ld_table \ ld_before)

\* the Page (1,1), (1,2), (2,1) loaded into a table that holds key 2: the
\* first row is added, the second repeats its key, the third has a stored key
C21_Witness ==
    /\ ld_pc = "returned"
    /\ ld_page = DuplicatePage
    /\ ld_before = {StoredRow(2, NULL)}
    /\ ld_table = {StoredRow(2, NULL), StoredRow(1, 1)}
    /\ ld_outcome = "ok"
    /\ rows_affected = 1
\* the Page has a row shorter than its column list
HasShortRow(page) ==
    \E k \in DOMAIN page.data : Len(page.data[k]) < Len(page.columns)

\* C22 as stated: the load of a Page that has a short row, the database
\* raising nothing for a reason of its own, does not fail.
C22_ShortRowNeverFails ==
    (ld_pc = "returned" /\ ld_fail_at = 0 /\ HasShortRow(ld_page))
        => ld_outcome # "error"

\* C22 as amended: the projection of a short row does not fail: a row added
\* holds, for each destination column, the row's value at the column's source
\* index, and NULL when the index is beyond the row; the load fails only
\* where the database rejects a statement, which it does when the NULL falls
\* on the key column.
C22_ShortRowPadsNull ==
    (ld_pc = "returned" /\ ld_fail_at = 0 /\ HasShortRow(ld_page)) =>
        /\ ld_outcome = "error" =>
              \E k \in DOMAIN ld_page.data :
                  ValueOf(ld_page, ld_page.data[k], Upper(KeyCol)) = NULL
        /\ ld_outcome = "ok" =>
              \A r \in ld_table \ ld_before :
                  \E k \in DOMAIN ld_page.data :
                      \A c \in TableCols :
                          r[c] = ValueOf(ld_page, ld_page.data[k], Upper(c))

\* the Page (ID, NM, EX) with the row (2) was loaded into an empty table: the
\* row stored has id = 2 and nm NULL
C22_Witness ==
    /\ ld_pc = "returned"
    /\ ld_page = Page(<<c_ID, c_NM, c_EX>>, << <<2>> >>)
    /\ ld_fail_at = 0
    /\ ld_outcome = "ok"
    /\ ld_before = {}
    /\ ld_table = {StoredRow(2, NULL)}
    /\ rows_affected = 1
\* C23: the load of a Page that has data and none of whose columns resolves
\* returns before any statement: the table, the committed rows and the count
\* of rolled-back Pages are unchanged, no exception is raised, and the run
\* goes on with the next page, ISIN or date as the cursor of the response
\* says (a well-formed one).
C23_Step ==
    (/\ pc = "load" /\ HasData(data)
     /\ db_columns_in_order(data.block.columns,
                            get_column_mapping(config_schema)) = <<>>
     /\ ~(Paged /\ CursorRaises(data))) =>
        /\ insert_data_generic(table, data.block, config_schema, 0).outcome
               = "noop"
        /\ table' = table
        /\ committed' = committed
        /\ page_failures' = page_failures
        /\ exc' = "none"
        /\ Continues \/ GoesOn

C23_NoResolvedColumnIsNoOp == [][C23_Step]_vars

\* after a Page that committed, a Page none of whose columns resolves has been
\* fetched for a schema section that has options, with a cursor that reports
\* more
C23_Witness ==
    /\ pc = "load"
    /\ Paged
    /\ data.block = UnresolvedPage
    /\ config_schema = <<c_id, c_nm>>
    /\ data.cursor = Cursor(1, MaxTotal, 1)
    /\ committed # {}
\* C24: a run for coupons, amortizations or offers with explicit ISINs that
\* gets past the mode test drives one paginated fetch sequence for every ISIN
\* of the list, in the order of the list: the first request of every sequence
\* is at start 0, the run steps from an ISIN to the next one only, with the
\* offset back at 0 (the same at a step to the next date), and it ends having
\* fetched for the last ISIN.
C24_Starts == (pc = "fetch" /\ requests = <<>>) => params_start = 0

C24_Step ==
    (Paged /\ pc = "load") =>
        /\ isin_idx' \in {isin_idx, isin_idx + 1}
        /\ (isin_idx' # isin_idx \/ date' # date) =>
               params_start' = 0 /\ requests' = <<>>

C24_Ends ==
    (/\ Loop = "bondization_isin" /\ args.mode # "clear"
     /\ Ended /\ conn = "closed")
        => isin_idx = Len(isin_list)

C24_OneSequencePerIsin == [](C24_Starts /\ C24_Ends) /\ [][C24_Step]_vars
\* C25: after a run with Mode=overwrite that went through its try block and
\* returned, every row of the table is a row a Page of this run inserted and
\* committed.
C25_OverwriteLeavesOnlyNewRows ==
    (args.mode = "overwrite" /\ pc = "done" /\ conn = "closed")
        => table \subseteq {c[1] : c \in committed}
====
